---- MODULE Spec2Model ----
(***************************************************************************)
(* MAC operations of psa-crypto: the one-shot calls compute_mac and        *)
(* verify_mac and the multi-part session mac_sign_setup / mac_update /     *)
(* mac_sign_finish over a MacOperation (psa-crypto/src/operations/mac.rs,  *)
(* psa-crypto/src/types/operation.rs).  The wrappers are translated from   *)
(* the source; the PSA provider they call (psa_crypto_sys), the global     *)
(* initialization flag and the status translation live outside the two     *)
(* source files and follow the written specification.                      *)
(***************************************************************************)
EXTENDS Integers, Sequences, FiniteSets, TLC

\* ------------------------------------------------------------- bounds
NumSessions == 2      \* session objects the caller may hold
MaxMsgLen == 2        \* longest message (bytes fed between setup and finish)
MaxChunks == 2        \* most successful mac_update calls between setup and finish
MaxBufLen == 2        \* longest output buffer a caller supplies
MaxGuess == 2         \* longest expected_mac handed to verify_mac

\* ------------------------------------------------------------- domains
Sessions == 1..NumSessions
Byte == {0, 1}                       \* values of a message byte
RECURSIVE SeqsUpTo(_, _)
SeqsUpTo(S, n) ==
  IF n = 0 THEN {<<>>}
  ELSE LET shorter == SeqsUpTo(S, n - 1)
       IN shorter \cup {Append(q, x) : q \in {r \in shorter : Len(r) = n - 1}, x \in S}
Messages == SeqsUpTo(Byte, MaxMsgLen)
BufLens == 0..MaxBufLen
MemLen == MaxBufLen + 1              \* the buffer's memory plus one byte behind it

\* ------------------------------------------------------------- results
Ok(v) == [ok |-> TRUE, err |-> "None", val |-> v]
Err(e) == [ok |-> FALSE, err |-> e, val |-> 0]

\* Status::from: the provider's status code as an error kind.
StatusFrom(status) ==
  CASE status = "PSA_SUCCESS" -> "Success"
    [] status = "PSA_ERROR_BAD_STATE" -> "InvalidState"
    [] status = "PSA_ERROR_INVALID_HANDLE" -> "InvalidHandle"
    [] status = "PSA_ERROR_NOT_PERMITTED" -> "InvalidHandle"
    [] status = "PSA_ERROR_NOT_SUPPORTED" -> "InvalidAlgorithm"
    [] status = "PSA_ERROR_INVALID_ARGUMENT" -> "InvalidAlgorithm"
    [] status = "PSA_ERROR_BUFFER_TOO_SMALL" -> "BufferTooSmall"
    [] status = "PSA_ERROR_INVALID_SIGNATURE" -> "AuthenticationFailure"
    [] OTHER -> "ProviderFault"

\* Status::to_result: success is Ok(()), any other kind an error.
to_result(kind) == IF kind = "Success" THEN Ok(0) ELSE Err(kind)

\* crate::initialized(): the global readiness check every entry point makes first.
initialized(flag) == IF flag THEN Ok(0) ELSE Err("NotInitialized")

\* ------------------------------------------------------------- algorithms and keys
\* Mac values of the caller: full-length CMAC, CMAC truncated to one byte,
\* full-length HMAC (not built into the provider: mac.rs line 54).
MacAlgs == {[base |-> "Cmac", trunc |-> 0], [base |-> "Cmac", trunc |-> 1],
            [base |-> "Hmac", trunc |-> 0]}
AlgBits == 4
\* mac_alg.into(): the algorithm as the provider's integer identifier.
AlgInto(mac_alg) ==
  (IF mac_alg.base = "Cmac" THEN 1 ELSE 2) * AlgBits + mac_alg.trunc
AlgBase(alg) == alg \div AlgBits
AlgTrunc(alg) == alg % AlgBits
FullMacLen == 2
MacLength(alg) == IF AlgTrunc(alg) = 0 THEN FullMacLen ELSE AlgTrunc(alg)

\* Key handles issued by key management: 1 and 2 permit MAC signing (2 only
\* at full length), 3 carries no signing permission, 0 is no key.
KeyIds == 0..3
KeyStore ==
  [k \in 1..3 |->
     [material |-> k, sign |-> k # 3,
      permitted |-> IF k = 2 THEN {AlgInto([base |-> "Cmac", trunc |-> 0])}
                    ELSE {AlgInto([base |-> "Cmac", trunc |-> 0]),
                          AlgInto([base |-> "Cmac", trunc |-> 1])}]]

\* ------------------------------------------------------------- provider: MAC function
HMod == 16
TagBase == 4
KeyInit(material, alg) == (material * 5 + alg) % HMod
Absorb(acc, b) == (acc * 3 + b + 1) % HMod
RECURSIVE AbsorbAll(_, _)
AbsorbAll(acc, data) ==
  IF data = <<>> THEN acc ELSE AbsorbAll(Absorb(acc, Head(data)), Tail(data))
RECURSIVE Pow(_, _)
Pow(b, e) == IF e = 0 THEN 1 ELSE b * Pow(b, e - 1)
Tag(acc, n) == [i \in 1..n |-> (acc \div Pow(TagBase, i - 1)) % TagBase]
TagBytes == 0..(TagBase - 1)

\* ------------------------------------------------------------- provider: memory
PoisonByte == 9
WriteMem(mem, bytes) ==
  [i \in 1..Len(mem) |-> IF i <= Len(bytes) THEN bytes[i] ELSE mem[i]]
PoisonMem(mem, size) ==
  [i \in 1..Len(mem) |-> IF i <= size THEN PoisonByte ELSE mem[i]]
ZeroMem == [i \in 1..MemLen |-> 0]

\* ------------------------------------------------------------- provider: calls
\* Key and algorithm validation shared by the provider's MAC entry points.
MacValidate(key, alg) ==
  IF key \notin DOMAIN KeyStore THEN "PSA_ERROR_INVALID_HANDLE"
  ELSE IF ~KeyStore[key].sign THEN "PSA_ERROR_NOT_PERMITTED"
  ELSE IF AlgBase(alg) # 1 THEN "PSA_ERROR_NOT_SUPPORTED"
  ELSE IF alg \notin KeyStore[key].permitted THEN "PSA_ERROR_NOT_PERMITTED"
  ELSE "PSA_SUCCESS"

psa_mac_compute(key, alg, input, mem, size) ==
  LET v == MacValidate(key, alg)
      n == MacLength(alg)
  IN IF v # "PSA_SUCCESS" THEN [status |-> v, mem |-> PoisonMem(mem, size), length |-> 0]
     ELSE IF size < n
       THEN [status |-> "PSA_ERROR_BUFFER_TOO_SMALL", mem |-> PoisonMem(mem, size),
             length |-> 0]
     ELSE [status |-> "PSA_SUCCESS",
           mem |-> WriteMem(mem, Tag(AbsorbAll(KeyInit(KeyStore[key].material, alg), input), n)),
           length |-> n]

psa_mac_verify(key, alg, input, expected) ==
  LET v == MacValidate(key, alg)
  IN IF v # "PSA_SUCCESS" THEN v
     ELSE IF expected = Tag(AbsorbAll(KeyInit(KeyStore[key].material, alg), input),
                            MacLength(alg))
       THEN "PSA_SUCCESS"
     ELSE "PSA_ERROR_INVALID_SIGNATURE"

\* psa_mac_operation_t, all zero: the inert context.
ZeroOp == [id |-> 0, key |-> 0, alg |-> 0, acc |-> 0]

psa_mac_sign_setup(operation, key, alg) ==
  LET v == MacValidate(key, alg)
  IN IF operation.id # 0 THEN [status |-> "PSA_ERROR_BAD_STATE", operation |-> ZeroOp]
     ELSE IF v # "PSA_SUCCESS" THEN [status |-> v, operation |-> ZeroOp]
     ELSE [status |-> "PSA_SUCCESS",
           operation |-> [id |-> 1, key |-> key, alg |-> alg,
                          acc |-> KeyInit(KeyStore[key].material, alg)]]

psa_mac_update(operation, input, fault) ==
  IF operation.id = 0 THEN [status |-> "PSA_ERROR_BAD_STATE", operation |-> operation]
  ELSE IF fault THEN [status |-> "PSA_ERROR_HARDWARE_FAILURE", operation |-> ZeroOp]
  ELSE [status |-> "PSA_SUCCESS",
        operation |-> [operation EXCEPT !.acc = AbsorbAll(operation.acc, input)]]

psa_mac_sign_finish(operation, mem, size) ==
  IF operation.id = 0
    THEN [status |-> "PSA_ERROR_BAD_STATE", operation |-> operation,
          mem |-> PoisonMem(mem, size), length |-> 0]
  ELSE IF size < MacLength(operation.alg)
    THEN [status |-> "PSA_ERROR_BUFFER_TOO_SMALL", operation |-> ZeroOp,
          mem |-> PoisonMem(mem, size), length |-> 0]
  ELSE [status |-> "PSA_SUCCESS", operation |-> ZeroOp,
        mem |-> WriteMem(mem, Tag(operation.acc, MacLength(operation.alg))),
        length |-> MacLength(operation.alg)]

\* ------------------------------------------------------------- the wrappers (mac.rs)
\* Each returns the caller's result, the memory and session it leaves, the
\* number of provider calls it made and the status the provider returned.
\* `mem` is the memory holding the output buffer, `len` the buffer's length
\* (mac.len(), output.len()).
\* Mutant: compute_mac without the readiness check.
compute_mac_NoInitCheck(flag, key_id, mac_alg, input_message, mem, len) ==
  LET r == psa_mac_compute(key_id, AlgInto(mac_alg), input_message, mem, len)
      mac_compute_res == to_result(StatusFrom(r.status))
  IN [res |-> IF mac_compute_res.ok THEN Ok(r.length) ELSE mac_compute_res,
      mem |-> r.mem, calls |-> 1, status |-> r.status]

\* Mutant: compute_mac returning mac.len() instead of output_length.
compute_mac_ReturnsBufLen(flag, key_id, mac_alg, input_message, mem, len) ==
  IF ~initialized(flag).ok
    THEN [res |-> initialized(flag), mem |-> mem, calls |-> 0, status |-> "none"]
  ELSE LET r == psa_mac_compute(key_id, AlgInto(mac_alg), input_message, mem, len)
           mac_compute_res == to_result(StatusFrom(r.status))
       IN [res |-> IF mac_compute_res.ok THEN Ok(len) ELSE mac_compute_res,
           mem |-> r.mem, calls |-> 1, status |-> r.status]

\* Mutant: compute_mac telling the provider the buffer is one byte longer.
compute_mac_SizePlusOne(flag, key_id, mac_alg, input_message, mem, len) ==
  IF ~initialized(flag).ok
    THEN [res |-> initialized(flag), mem |-> mem, calls |-> 0, status |-> "none"]
  ELSE LET r == psa_mac_compute(key_id, AlgInto(mac_alg), input_message, mem, len + 1)
           mac_compute_res == to_result(StatusFrom(r.status))
       IN [res |-> IF mac_compute_res.ok THEN Ok(r.length) ELSE mac_compute_res,
           mem |-> r.mem, calls |-> 1, status |-> r.status]

compute_mac(flag, key_id, mac_alg, input_message, mem, len) ==
  IF ~initialized(flag).ok
    THEN [res |-> initialized(flag), mem |-> mem, calls |-> 0, status |-> "none"]
  ELSE LET r == psa_mac_compute(key_id, AlgInto(mac_alg), input_message, mem, len)
           mac_compute_res == to_result(StatusFrom(r.status))
       IN [res |-> IF mac_compute_res.ok THEN Ok(r.length) ELSE mac_compute_res,
           mem |-> r.mem, calls |-> 1, status |-> r.status]

\* Mutant: verify_mac dropping the provider's status.
verify_mac_IgnoreStatus(flag, key_id, mac_alg, input_message, expected_mac) ==
  IF ~initialized(flag).ok
    THEN [res |-> initialized(flag), calls |-> 0, status |-> "none"]
  ELSE [res |-> Ok(0), calls |-> 1,
        status |-> psa_mac_verify(key_id, AlgInto(mac_alg), input_message, expected_mac)]

verify_mac(flag, key_id, mac_alg, input_message, expected_mac) ==
  IF ~initialized(flag).ok
    THEN [res |-> initialized(flag), calls |-> 0, status |-> "none"]
  ELSE LET status == psa_mac_verify(key_id, AlgInto(mac_alg), input_message,
                                    expected_mac)
           mac_verify_res == to_result(StatusFrom(status))
       IN [res |-> mac_verify_res, calls |-> 1, status |-> status]

\* Mutant: mac_sign_setup making the readiness check after the provider call.
mac_sign_setup_LateInitCheck(flag, operation, key_id, mac_alg) ==
  LET r == psa_mac_sign_setup(operation, key_id, AlgInto(mac_alg))
  IN [res |-> IF ~initialized(flag).ok THEN initialized(flag)
              ELSE to_result(StatusFrom(r.status)),
      operation |-> r.operation, calls |-> 1, status |-> r.status]

\* Mutant: mac_sign_setup zeroing the context before it calls the provider.
mac_sign_setup_ResetsFirst(flag, operation, key_id, mac_alg) ==
  IF ~initialized(flag).ok
    THEN [res |-> initialized(flag), operation |-> operation, calls |-> 0, status |-> "none"]
  ELSE LET r == psa_mac_sign_setup(ZeroOp, key_id, AlgInto(mac_alg))
       IN [res |-> to_result(StatusFrom(r.status)), operation |-> r.operation,
           calls |-> 1, status |-> r.status]

\* Mutant: mac_sign_setup calling the provider a second time when it fails.
mac_sign_setup_Retries(flag, operation, key_id, mac_alg) ==
  IF ~initialized(flag).ok
    THEN [res |-> initialized(flag), operation |-> operation, calls |-> 0, status |-> "none"]
  ELSE LET r == psa_mac_sign_setup(operation, key_id, AlgInto(mac_alg))
           q == psa_mac_sign_setup(r.operation, key_id, AlgInto(mac_alg))
       IN IF r.status = "PSA_SUCCESS"
            THEN [res |-> to_result(StatusFrom(r.status)), operation |-> r.operation,
                  calls |-> 1, status |-> r.status]
          ELSE [res |-> to_result(StatusFrom(q.status)), operation |-> q.operation,
                calls |-> 2, status |-> q.status]

mac_sign_setup(flag, operation, key_id, mac_alg) ==
  IF ~initialized(flag).ok
    THEN [res |-> initialized(flag), operation |-> operation, calls |-> 0, status |-> "none"]
  ELSE LET r == psa_mac_sign_setup(operation, key_id, AlgInto(mac_alg))
       IN [res |-> to_result(StatusFrom(r.status)), operation |-> r.operation, calls |-> 1, status |-> r.status]

\* Mutant: mac_update dropping the provider's status.
mac_update_IgnoreStatus(flag, operation, input, fault) ==
  IF ~initialized(flag).ok
    THEN [res |-> initialized(flag), operation |-> operation, calls |-> 0, status |-> "none"]
  ELSE LET r == psa_mac_update(operation, input, fault)
       IN [res |-> Ok(0), operation |-> r.operation, calls |-> 1, status |-> r.status]

\* Mutant: mac_update passing input.len() - 1 as the chunk length.
mac_update_ShortLen(flag, operation, input, fault) ==
  IF ~initialized(flag).ok
    THEN [res |-> initialized(flag), operation |-> operation, calls |-> 0, status |-> "none"]
  ELSE LET r == psa_mac_update(operation, SubSeq(input, 1, Len(input) - 1), fault)
       IN [res |-> to_result(StatusFrom(r.status)), operation |-> r.operation, calls |-> 1, status |-> r.status]

\* Mutant: mac_update handing the provider a copy of the context.
mac_update_OnCopy(flag, operation, input, fault) ==
  IF ~initialized(flag).ok
    THEN [res |-> initialized(flag), operation |-> operation, calls |-> 0, status |-> "none"]
  ELSE LET r == psa_mac_update(operation, input, fault)
       IN [res |-> to_result(StatusFrom(r.status)), operation |-> operation, calls |-> 1, status |-> r.status]

mac_update(flag, operation, input, fault) ==
  IF ~initialized(flag).ok
    THEN [res |-> initialized(flag), operation |-> operation, calls |-> 0, status |-> "none"]
  ELSE LET r == psa_mac_update(operation, input, fault)
       IN [res |-> to_result(StatusFrom(r.status)), operation |-> r.operation, calls |-> 1, status |-> r.status]

\* Mutant: mac_sign_finish dropping the provider's status.
mac_sign_finish_IgnoreStatus(flag, operation, mem, len) ==
  IF ~initialized(flag).ok
    THEN [res |-> initialized(flag), operation |-> operation, mem |-> mem, calls |-> 0, status |-> "none"]
  ELSE LET r == psa_mac_sign_finish(operation, mem, len)
       IN [res |-> Ok(r.length), operation |-> r.operation, mem |-> r.mem, calls |-> 1, status |-> r.status]

\* Mutant: mac_sign_finish keeping the caller's context when the provider
\* reports a buffer that is too small.
mac_sign_finish_KeepsOnTooSmall(flag, operation, mem, len) ==
  IF ~initialized(flag).ok
    THEN [res |-> initialized(flag), operation |-> operation, mem |-> mem, calls |-> 0,
          status |-> "none"]
  ELSE LET r == psa_mac_sign_finish(operation, mem, len)
           mac_finish_status == to_result(StatusFrom(r.status))
       IN [res |-> IF mac_finish_status.ok THEN Ok(r.length) ELSE mac_finish_status,
           operation |-> IF r.status = "PSA_ERROR_BUFFER_TOO_SMALL" THEN operation
                         ELSE r.operation,
           mem |-> r.mem, calls |-> 1, status |-> r.status]

\* Mutant: mac_sign_finish handing the provider a copy of the context.
mac_sign_finish_OnCopy(flag, operation, mem, len) ==
  IF ~initialized(flag).ok
    THEN [res |-> initialized(flag), operation |-> operation, mem |-> mem, calls |-> 0,
          status |-> "none"]
  ELSE LET r == psa_mac_sign_finish(operation, mem, len)
           mac_finish_status == to_result(StatusFrom(r.status))
       IN [res |-> IF mac_finish_status.ok THEN Ok(r.length) ELSE mac_finish_status,
           operation |-> operation, mem |-> r.mem, calls |-> 1, status |-> r.status]

mac_sign_finish(flag, operation, mem, len) ==
  IF ~initialized(flag).ok
    THEN [res |-> initialized(flag), operation |-> operation, mem |-> mem, calls |-> 0, status |-> "none"]
  ELSE LET r == psa_mac_sign_finish(operation, mem, len)
           mac_finish_status == to_result(StatusFrom(r.status))
       IN [res |-> IF mac_finish_status.ok THEN Ok(r.length) ELSE mac_finish_status,
           operation |-> r.operation, mem |-> r.mem, calls |-> 1, status |-> r.status]

\* Mutant: MacOperation::default() leaving the context's bytes as it found them.
MacOperationDefault_Uninit == [id |-> 1, key |-> 1, alg |-> 4, acc |-> 0]

\* MacOperation::default(): the zeroed provider context.
MacOperationDefault == ZeroOp

\* ------------------------------------------------------------- state
VARIABLES
  initialised,  \* the global flag crate::initialized() reads
  live,         \* per session object: "none", "live" or "dropped"
  ops,          \* per session object: the psa_mac_operation_t it wraps
  out,          \* output memory of the latest call (buffer and the byte behind it)
  hist,         \* per session object: what its caller has observed so far
  last,         \* the latest call: its name, inputs, result, provider calls
  args,         \* message and expected MAC of the latest one-shot call
  drawn,        \* key, algorithm and message a one-shot scenario is about
  prior         \* per session object, in the reuse scenario: the key of its
                \* latest finished earlier use, and whether the first finish
                \* since the latest successful setup returned BufferTooSmall
vars == <<initialised, live, ops, out, hist, last, args, drawn, prior>>

NoAlg == [base |-> "None", trunc |-> 0]
NoHist == [setupOk |-> FALSE, key |-> 0, alg |-> NoAlg, fed |-> <<>>,
           nfin |-> 0, setupErr |-> FALSE, updErr |-> FALSE]
\* Nothing remembered of earlier uses of a session object.
NoPrior == [key |-> 0, tooSmall |-> FALSE]
NoArgs == [input |-> <<>>, expected |-> <<>>]
NoDraw == [key |-> 0, alg |-> NoAlg, input |-> <<>>]
Call(op, s, res, calls, len, key, alg, status) ==
  [op |-> op, sess |-> s, res |-> res, calls |-> calls, len |-> len, key |-> key, alg |-> alg,
   status |-> status]

\* let mut mac = vec![0; buffer_size]: every call gets a zeroed buffer.
FreshMem == ZeroMem

RECURSIVE Flatten(_)
Flatten(chunks) == IF chunks = <<>> THEN <<>> ELSE Head(chunks) \o Flatten(Tail(chunks))

InitState ==
  /\ initialised = FALSE
  /\ live = [s \in Sessions |-> "none"]
  /\ ops = [s \in Sessions |-> ZeroOp]
  /\ out = ZeroMem
  /\ hist = [s \in Sessions |-> NoHist]
  /\ last = Call("none", 0, Ok(0), 0, 0, 0, NoAlg, "none")
  /\ args = NoArgs
  /\ prior = [s \in Sessions |-> NoPrior]

Init == InitState /\ drawn = NoDraw

\* psa_crypto::init(): sets the global flag; nothing in the crate clears it.
PsaInit ==
  /\ ~initialised
  /\ initialised' = TRUE
  /\ last' = Call("init", 0, Ok(0), 0, 0, 0, NoAlg, "none")
  /\ args' = NoArgs
  /\ out' = ZeroMem
  /\ UNCHANGED <<live, ops, hist, drawn, prior>>

\* let mut op = MacOperation::default();
Default(s) ==
  /\ live[s] # "live"
  /\ live' = [live EXCEPT ![s] = "live"]
  /\ ops' = [ops EXCEPT ![s] = MacOperationDefault]
  /\ hist' = [hist EXCEPT ![s] = NoHist]
  /\ last' = Call("default", s, Ok(0), 0, 0, 0, NoAlg, "none")
  /\ args' = NoArgs
  /\ out' = ZeroMem
  /\ prior' = [prior EXCEPT ![s] = NoPrior]
  /\ UNCHANGED <<initialised, drawn>>

\* The session object goes out of scope.  MacOperation has no Drop: its bytes
\* are left as they are.
Drop(s) ==
  /\ live[s] = "live"
  /\ live' = [live EXCEPT ![s] = "dropped"]
  /\ last' = Call("drop", s, Ok(0), 0, 0, 0, NoAlg, "none")
  /\ args' = NoArgs
  /\ out' = ZeroMem
  /\ UNCHANGED <<initialised, ops, hist, drawn, prior>>

\* Mutant: compute_mac running its computation in the first session's context.
ComputeMac_UsesSession(key_id, mac_alg, m, len) ==
  LET r == compute_mac(initialised, key_id, mac_alg, m, FreshMem, len)
  IN /\ out' = r.mem
     /\ last' = Call("compute", 0, r.res, r.calls, len, key_id, mac_alg, r.status)
     /\ args' = [input |-> m, expected |-> <<>>]
     /\ ops' = [ops EXCEPT ![1] = IF r.calls = 0 THEN @ ELSE ZeroOp]
     /\ UNCHANGED <<initialised, live, hist, drawn, prior>>

ComputeMac(key_id, mac_alg, m, len) ==
  LET r == compute_mac(initialised, key_id, mac_alg, m, FreshMem, len)
  IN /\ out' = r.mem
     /\ last' = Call("compute", 0, r.res, r.calls, len, key_id, mac_alg, r.status)
     /\ args' = [input |-> m, expected |-> <<>>]
     /\ UNCHANGED <<initialised, live, ops, hist, drawn, prior>>

VerifyMac(key_id, mac_alg, m, e) ==
  LET r == verify_mac(initialised, key_id, mac_alg, m, e)
  IN /\ last' = Call("verify", 0, r.res, r.calls, 0, key_id, mac_alg, r.status)
     /\ args' = [input |-> m, expected |-> e]
     /\ out' = ZeroMem
     /\ UNCHANGED <<initialised, live, ops, hist, drawn, prior>>

\* Mutant: every session object wrapping one shared provider context.
SetupWith_SharedContext(s, key_id, mac_alg) ==
  /\ live[s] = "live"
  /\ LET r == mac_sign_setup(initialised, ops[1], key_id, mac_alg)
     IN /\ ops' = [t \in Sessions |-> r.operation]
        /\ hist' = [hist EXCEPT ![s] =
                      IF r.res.ok
                        THEN [setupOk |-> TRUE, key |-> key_id, alg |-> mac_alg,
                              fed |-> <<>>, nfin |-> 0, setupErr |-> FALSE,
                              updErr |-> FALSE]
                      ELSE [@ EXCEPT !.fed = <<>>, !.setupErr = TRUE]]
        /\ last' = Call("setup", s, r.res, r.calls, 0, key_id, mac_alg, r.status)
        /\ args' = NoArgs
        /\ out' = ZeroMem
        /\ UNCHANGED <<initialised, live, drawn>>

\* mac_sign_setup(key_id, mac_alg, &mut op) on session s.  The cores SetupWith,
\* UpdateWith and FinishWith leave `prior` to the specification that uses them.
SetupWith(s, key_id, mac_alg) ==
  /\ live[s] = "live"
  /\ LET r == mac_sign_setup(initialised, ops[s], key_id, mac_alg)
         h == hist[s]
     IN /\ ops' = [ops EXCEPT ![s] = r.operation]
        /\ hist' = [hist EXCEPT ![s] =
                      IF r.res.ok
                        THEN [setupOk |-> TRUE, key |-> key_id, alg |-> mac_alg,
                              fed |-> <<>>, nfin |-> 0, setupErr |-> FALSE,
                              updErr |-> FALSE]
                      ELSE [@ EXCEPT !.fed = <<>>, !.setupErr = TRUE]]
        /\ last' = Call("setup", s, r.res, r.calls, 0, key_id, mac_alg, r.status)
        /\ args' = NoArgs
        /\ out' = ZeroMem
        /\ UNCHANGED <<initialised, live, drawn>>

Setup(s) ==
  /\ \E key_id \in KeyIds, mac_alg \in MacAlgs : SetupWith(s, key_id, mac_alg)
  /\ UNCHANGED prior

\* mac_update(&mut op, input) on session s.  The caller feeds at most MaxChunks
\* chunks and MaxMsgLen bytes to one setup.
UpdateWith(s, input, fault) ==
  /\ live[s] = "live"
  /\ LET r == mac_update(initialised, ops[s], input, fault)
         h == hist[s]
         counted == h.setupOk /\ h.nfin = 0 /\ ~h.setupErr /\ ~h.updErr
     IN /\ counted =>
             /\ Len(h.fed) < MaxChunks
             /\ Len(Flatten(h.fed)) + Len(input) <= MaxMsgLen
        /\ ops' = [ops EXCEPT ![s] = r.operation]
        /\ hist' = [hist EXCEPT ![s] =
                      IF r.res.ok /\ counted THEN [@ EXCEPT !.fed = Append(@, input)]
                      ELSE IF r.res.ok THEN [@ EXCEPT !.fed = <<>>]
                      ELSE [@ EXCEPT !.fed = <<>>, !.updErr = @ \/ counted]]
        /\ last' = Call("update", s, r.res, r.calls, 0, 0, NoAlg, r.status)
        /\ args' = NoArgs
        /\ out' = ZeroMem
        /\ UNCHANGED <<initialised, live, drawn>>

Update(s) ==
  /\ \E input \in Messages, fault \in BOOLEAN : UpdateWith(s, input, fault)
  /\ UNCHANGED prior

\* mac_sign_finish(&mut op, &mut mac) on session s with a buffer of len bytes.
FinishWith(s, len) ==
  /\ live[s] = "live"
  /\ LET r == mac_sign_finish(initialised, ops[s], FreshMem, len)
         h == hist[s]
         counted == h.setupOk /\ h.nfin = 0 /\ ~h.setupErr /\ ~h.updErr
     IN /\ ops' = [ops EXCEPT ![s] = r.operation]
        /\ out' = r.mem
        /\ hist' = [hist EXCEPT ![s] =
                      [@ EXCEPT !.fed = IF counted THEN @ ELSE <<>>,
                                !.nfin = IF @ < 2 THEN @ + 1 ELSE @]]
        /\ last' = Call("finish", s, r.res, r.calls, len, 0, NoAlg, r.status)
        /\ args' = NoArgs
        /\ UNCHANGED <<initialised, live, drawn>>

Finish(s) ==
  /\ \E len \in BufLens : FinishWith(s, len)
  /\ UNCHANGED prior

\* ------------------------------------------------------------- specifications
\* One session object, every session operation, and one-shot calls on the empty
\* message with a key that permits signing and one that does not.
OneSession == {1}
OneShotKeys == {1, 3}
Next ==
  \/ PsaInit
  \/ \E s \in OneSession : Default(s)
  \/ \E s \in OneSession : Drop(s)
  \/ \E key_id \in OneShotKeys, mac_alg \in MacAlgs, len \in BufLens :
       ComputeMac(key_id, mac_alg, <<>>, len)
  \/ \E key_id \in OneShotKeys, mac_alg \in MacAlgs : VerifyMac(key_id, mac_alg, <<>>, <<>>)
  \/ \E s \in OneSession : Setup(s)
  \/ \E s \in OneSession : Update(s)
  \/ \E s \in OneSession : Finish(s)
Spec == Init /\ [][Next]_vars

\* The one-shot engine alone: a key, an algorithm and a message are drawn, then
\* compute_mac and verify_mac are called on them with every buffer length and
\* every expected MAC.
Guesses == SeqsUpTo(TagBytes, MaxGuess)
InitOneShot ==
  /\ InitState
  /\ drawn \in [key : KeyIds, alg : MacAlgs, input : Messages]
NextOneShot ==
  \/ PsaInit
  \/ \E len \in BufLens : ComputeMac(drawn.key, drawn.alg, drawn.input, len)
  \/ \E e \in Guesses : VerifyMac(drawn.key, drawn.alg, drawn.input, e)
SpecOneShot == InitOneShot /\ [][NextOneShot]_vars

\* One session object used over and over.  A successful setup of a session
\* that was finished since its previous successful setup records the key of
\* that earlier use; the first finish after a successful setup records whether
\* it returned BufferTooSmall.
SignKeys == {1, 2}
ReuseSetup(s) ==
  /\ \E key_id \in SignKeys, mac_alg \in MacAlgs : SetupWith(s, key_id, mac_alg)
  /\ prior' = [prior EXCEPT ![s] =
                 IF last'.res.ok
                   THEN [key |-> IF hist[s].setupOk /\ hist[s].nfin >= 1
                                   THEN hist[s].key
                                 ELSE @.key,
                         tooSmall |-> FALSE]
                 ELSE @]
ReuseFinish(s) ==
  /\ \E len \in BufLens : FinishWith(s, len)
  /\ prior' = [prior EXCEPT ![s].tooSmall =
                 IF hist[s].nfin = 0 THEN last'.res = Err("BufferTooSmall") ELSE @]
NextReuse ==
  \/ PsaInit
  \/ \E s \in OneSession : Default(s)
  \/ \E s \in OneSession : ReuseSetup(s)
  \/ \E s \in OneSession : Update(s)
  \/ \E s \in OneSession : ReuseFinish(s)
SpecReuse == Init /\ [][NextReuse]_vars

\* Two threads, thread t working on session object t with key handle t; a step
\* is one whole call of one thread, so the runs are all the interleavings of
\* the two threads' calls.
TwoSessions == {1, 2}
ThreadKey(t) == t
Chunks == {m \in Messages : Len(m) = 1}
NextTwo ==
  \/ PsaInit
  \/ \E t \in TwoSessions : Default(t)
  \/ \E t \in TwoSessions, mac_alg \in MacAlgs :
       SetupWith(t, ThreadKey(t), mac_alg) /\ UNCHANGED prior
  \/ \E t \in TwoSessions, input \in Chunks :
       UpdateWith(t, input, FALSE) /\ UNCHANGED prior
  \/ \E t \in TwoSessions, len \in BufLens : FinishWith(t, len) /\ UNCHANGED prior
SpecTwo == Init /\ [][NextTwo]_vars

\* ------------------------------------------------------------- claims
SessionOps == {"setup", "update", "finish"}
\* The latest call was made on session s and is one of `names`.
LastOn(s, names) == live[s] = "live" /\ last.sess = s /\ last.op \in names
\* Session s was set up and nothing has failed or finished on it since, up to
\* the latest call.
Counted(s) ==
  hist[s].setupOk /\ ~hist[s].setupErr /\ ~hist[s].updErr
\* The latest call is the first mac_sign_finish after a successful setup that
\* was followed by successful updates only.
FirstFinish(s) == LastOn(s, {"finish"}) /\ Counted(s) /\ hist[s].nfin = 1

\* C1 as stated: on a session that never had a successful mac_sign_setup,
\* every mac_update and mac_sign_finish returns InvalidState.
C1_NeverSetupInvalidState ==
  \A s \in Sessions :
    (LastOn(s, {"update", "finish"}) /\ ~hist[s].setupOk)
      => last.res = Err("InvalidState")

\* C1 amended: on a session that never had a successful mac_sign_setup, every
\* mac_update and mac_sign_finish returns an error, never Ok: InvalidState
\* once global initialization has completed, NotInitialized before it.
C1_NeverSetupRejected ==
  \A s \in Sessions :
    (LastOn(s, {"update", "finish"}) /\ ~hist[s].setupOk)
      => last.res = (IF initialised THEN Err("InvalidState") ELSE Err("NotInitialized"))

\* A session whose only setup failed, then mac_sign_finish on it, initialized.
C1_Witness ==
  \E s \in Sessions :
    /\ LastOn(s, {"finish"}) /\ ~hist[s].setupOk /\ hist[s].setupErr
    /\ initialised /\ last.len >= FullMacLen

\* C2 as stated: a mac_sign_finish that follows another mac_sign_finish on the
\* same session with no successful setup in between returns InvalidState.
C2_SecondFinishInvalidState ==
  \A s \in Sessions :
    (LastOn(s, {"finish"}) /\ hist[s].nfin >= 2) => last.res = Err("InvalidState")

\* C2 amended: such a second mac_sign_finish fails: with InvalidState once
\* global initialization has completed, with NotInitialized before it.
C2_SecondFinishRejected ==
  \A s \in Sessions :
    (LastOn(s, {"finish"}) /\ hist[s].nfin >= 2)
      => last.res = (IF initialised THEN Err("InvalidState") ELSE Err("NotInitialized"))

\* A second finish on a session that was set up, with a buffer large enough.
C2_Witness ==
  \E s \in Sessions :
    /\ LastOn(s, {"finish"}) /\ hist[s].nfin >= 2 /\ hist[s].setupOk
    /\ ~hist[s].setupErr /\ ~hist[s].updErr /\ last.len >= FullMacLen

\* C3: while the global flag is not set, each of compute_mac, verify_mac,
\* mac_sign_setup, mac_update and mac_sign_finish returns NotInitialized,
\* makes no provider call and leaves the sessions and the output buffer as
\* they were passed in.
ApiOps == {"compute", "verify", "setup", "update", "finish"}
C3_UninitializedRejected ==
  [][(~initialised /\ last'.op \in ApiOps)
       => /\ last'.res = Err("NotInitialized")
          /\ last'.calls = 0
          /\ ops' = ops
          /\ out' = FreshMem]_vars

\* compute_mac on a usable key with a large enough buffer, before initialization.
C3_Witness ==
  /\ ~initialised /\ last.op = "compute" /\ last.key = 1
  /\ last.alg = [base |-> "Cmac", trunc |-> 0] /\ last.len = FullMacLen
  /\ last.res = Err("NotInitialized")

\* setup; update(M); finish on a fresh session, as the wrappers compute it.
SinglePass(key_id, mac_alg, M, len) ==
  LET s == mac_sign_setup(TRUE, MacOperationDefault, key_id, mac_alg)
      u == mac_update(TRUE, s.operation, M, FALSE)
  IN mac_sign_finish(TRUE, u.operation, FreshMem, len)

\* C4: chunking invariance.  A finish after setup; update(c1); update(c2)
\* returns what setup; update(c1 \o c2); finish returns with the same key,
\* algorithm and buffer: the same result and the same bytes, for every split
\* (empty chunks included).
C4_ChunkingInvariance ==
  \A s \in Sessions :
    (FirstFinish(s) /\ Len(hist[s].fed) = 2)
      => LET sp == SinglePass(hist[s].key, hist[s].alg, Flatten(hist[s].fed), last.len)
         IN last.res = sp.res /\ out = sp.mem

\* Two non-empty chunks were fed and the finish returned the MAC.
C4_Witness ==
  \E s \in Sessions :
    /\ FirstFinish(s) /\ Len(hist[s].fed) = 2 /\ last.res.ok
    /\ \A i \in 1..2 : hist[s].fed[i] # <<>>

\* C5: one-shot/multi-part equivalence.  setup(K, A); update(M); finish on a
\* fresh or reused session returns what compute_mac(K, A, M) returns into the
\* same buffer (length, bytes, or the error); with no update it returns what
\* compute_mac returns on the empty message; and when setup(K, A) fails on a
\* session that is not set up, compute_mac(K, A, M) fails for every M.
C5_OneShotEquivalence ==
  \A s \in Sessions :
    /\ (FirstFinish(s) /\ Len(hist[s].fed) <= 1)
         => LET cm == compute_mac(initialised, hist[s].key, hist[s].alg,
                                  Flatten(hist[s].fed), FreshMem, last.len)
            IN last.res = cm.res /\ out = cm.mem
    /\ (LastOn(s, {"setup"}) /\ ~last.res.ok /\ ~hist[s].setupOk)
         => \A m \in Messages, len \in BufLens :
              ~compute_mac(initialised, last.key, last.alg, m, FreshMem, len).res.ok

\* One update with a non-empty message, then a finish that returned the MAC.
C5_Witness ==
  \E s \in Sessions :
    /\ FirstFinish(s) /\ Len(hist[s].fed) = 1 /\ hist[s].fed[1] # <<>>
    /\ last.res.ok

\* C6: verify correctness.  Whenever compute_mac(K, A, M) succeeds,
\* verify_mac(K, A, M, mac) returns Ok when mac is the bytes compute_mac wrote
\* and AuthenticationFailure for every other mac.
C6_VerifyCorrectness ==
  \A len \in BufLens :
    LET cm == compute_mac(initialised, last.key, last.alg, args.input, FreshMem, len)
    IN (last.op = "verify" /\ cm.res.ok)
         => last.res = (IF args.expected = SubSeq(cm.mem, 1, cm.res.val) THEN Ok(0)
                        ELSE Err("AuthenticationFailure"))

\* verify_mac accepted a MAC of a non-empty message.
C6_Witness ==
  /\ last.op = "verify" /\ last.res = Ok(0) /\ args.input # <<>>
  /\ Len(args.expected) = FullMacLen

\* The provider accepts the key for MAC signing with the algorithm.
Usable(key_id, mac_alg) == MacValidate(key_id, AlgInto(mac_alg)) = "PSA_SUCCESS"

\* C7: buffer-size boundary.  With a usable key and algorithm, compute_mac and
\* the finish of a set-up session succeed into a buffer of exactly the MAC
\* length and fail with BufferTooSmall into a buffer one byte shorter; an
\* Ok(n) has n at most the buffer length; nothing is written behind the buffer.
C7_BufferBoundary ==
  /\ (last.op = "compute" /\ initialised /\ Usable(last.key, last.alg))
       => LET n == MacLength(AlgInto(last.alg))
          IN /\ last.len = n => last.res = Ok(n)
             /\ last.len = n - 1 => last.res = Err("BufferTooSmall")
  /\ \A s \in Sessions :
       FirstFinish(s)
         => LET n == MacLength(AlgInto(hist[s].alg))
            IN /\ last.len = n => last.res = Ok(n)
               /\ last.len = n - 1 => last.res = Err("BufferTooSmall")
  /\ last.op \in {"compute", "finish"}
       => /\ last.res.ok => last.res.val <= last.len
          /\ \A i \in 1..MemLen : i > last.len => out[i] = FreshMem[i]

\* compute_mac into a buffer one byte short of the full MAC length.
C7_Witness ==
  /\ last.op = "compute" /\ Usable(last.key, last.alg)
  /\ last.len = FullMacLen - 1 /\ last.alg.trunc = 0
  /\ last.res = Err("BufferTooSmall")

\* C8 as stated: a session that has been destroyed, or whose latest setup,
\* update or finish returned an error, holds the zero provider context.
C8_ContextErased ==
  \A s \in Sessions :
    (live[s] = "dropped" \/ (LastOn(s, SessionOps) /\ ~last.res.ok))
      => ops[s] = ZeroOp

\* C9: once mac_update has returned an error on a session that was set up and
\* usable, no mac_update or mac_sign_finish on it returns Ok until a new
\* mac_sign_setup succeeds.
C9_UpdateErrorInvalidates ==
  \A s \in Sessions :
    (LastOn(s, {"update", "finish"}) /\ hist[s].updErr) => ~last.res.ok

\* A finish with a large enough buffer after a failed update.
C9_Witness ==
  \E s \in Sessions :
    /\ LastOn(s, {"finish"}) /\ hist[s].updErr /\ ~hist[s].setupErr
    /\ hist[s].nfin = 1 /\ last.len >= FullMacLen

\* C10: when mac_sign_setup returns an error the session holds the zero
\* context (it is not Active), and mac_update and mac_sign_finish on it fail
\* until a mac_sign_setup succeeds.
C10_SetupErrorLeavesInert ==
  \A s \in Sessions :
    /\ (LastOn(s, {"setup"}) /\ ~last.res.ok) => ops[s] = ZeroOp
    /\ (LastOn(s, {"update", "finish"}) /\ hist[s].setupErr) => ~last.res.ok

\* A finish with a large enough buffer after a setup the provider refused.
C10_Witness ==
  \E s \in Sessions :
    /\ LastOn(s, {"finish"}) /\ hist[s].setupErr /\ initialised
    /\ last.len >= FullMacLen

\* C11 as stated: mac_sign_setup on a session whose previous setup succeeded
\* and that has not been finished since returns an error and does not bind the
\* session to the new key or algorithm; no second setup succeeds before a
\* finish.
C11_OneSetupBetweenFinishes ==
  [][\A s \in Sessions :
       (last'.op = "setup" /\ last'.sess = s /\ hist[s].setupOk /\ hist[s].nfin = 0)
         => /\ ~last'.res.ok
            /\ ops'[s] \in {ops[s], ZeroOp}]_vars

\* C11 amended: mac_sign_setup on a session whose previous setup succeeded and
\* on which no finish, failed setup or failed update has happened since is
\* rejected with InvalidState and does not bind the session to the new key or
\* algorithm: it leaves the session inert.  At most one setup succeeds between
\* two finishes unless a failed setup or a failed update came in between.
C11_ActiveSetupRejected ==
  [][\A s \in Sessions :
       (last'.op = "setup" /\ last'.sess = s /\ Counted(s) /\ hist[s].nfin = 0)
         => /\ last'.res = Err("InvalidState")
            /\ last'.calls = 1
            /\ ops'[s] = ZeroOp
            /\ hist'[s].key = hist[s].key /\ hist'[s].alg = hist[s].alg]_vars

\* A setup with a usable key that was refused because the session was Active.
C11_Witness ==
  \E s \in Sessions :
    /\ LastOn(s, {"setup"}) /\ last.res = Err("InvalidState")
    /\ Usable(last.key, last.alg) /\ hist[s].setupOk /\ hist[s].nfin = 0
    /\ ops[s] = ZeroOp

\* C12: with the global flag set, each of compute_mac, verify_mac,
\* mac_sign_setup, mac_update and mac_sign_finish makes exactly one provider
\* call; a provider status other than success is returned as the error it
\* translates to, and Ok is returned only for the success status.
C12_OneCallNoSwallow ==
  (initialised /\ last.op \in ApiOps)
    => /\ last.calls = 1
       /\ last.status # "none"
       /\ (last.status # "PSA_SUCCESS")
            => (~last.res.ok /\ last.res = Err(StatusFrom(last.status)))
       /\ last.res.ok => last.status = "PSA_SUCCESS"

\* A provider fault during mac_update on an Active session, returned as
\* ProviderFault after a single call.
C12_Witness ==
  \E s \in Sessions :
    /\ LastOn(s, {"update"}) /\ last.status = "PSA_ERROR_HARDWARE_FAILURE"
    /\ last.res = Err("ProviderFault") /\ last.calls = 1 /\ hist[s].updErr

\* C14: a mac_sign_finish that returns BufferTooSmall leaves the session
\* inert (Finished); once the first finish after a setup has returned
\* BufferTooSmall, every later mac_sign_finish on the session, whatever its
\* buffer, returns an error and writes no MAC, until a mac_sign_setup succeeds.
C14_TooSmallStillFinishes ==
  \A s \in Sessions :
    /\ (LastOn(s, {"finish"}) /\ last.res = Err("BufferTooSmall")) => ops[s] = ZeroOp
    /\ (LastOn(s, {"finish"}) /\ prior[s].tooSmall /\ hist[s].nfin >= 2)
         => /\ ~last.res.ok
            /\ \A i \in 1..MemLen : out[i] \notin TagBytes \ {0}

\* setup, no failure, a finish into a buffer that is too small, then a finish
\* into a buffer long enough for the MAC.
C14_Witness ==
  \E s \in Sessions :
    /\ LastOn(s, {"finish"}) /\ Counted(s) /\ prior[s].tooSmall /\ hist[s].nfin = 2
    /\ last.len >= FullMacLen /\ last.res = Err("InvalidState")

\* C15: a session object made by MacOperation::default() holds the all-zero
\* context, bound to no key and no algorithm, and holds it after every call
\* made on it for as long as no mac_sign_setup on it has succeeded.
C15_DefaultStaysInert ==
  \A s \in Sessions :
    (live[s] = "live" /\ ~hist[s].setupOk)
      => /\ ops[s] = ZeroOp
         /\ ops[s].id = 0 /\ ops[s].key = 0 /\ ops[s].alg = 0

\* A session made after global initialization whose setup was refused and that
\* was then fed a chunk.
C15_Witness ==
  \E s \in Sessions :
    /\ LastOn(s, {"update"}) /\ ~hist[s].setupOk /\ hist[s].setupErr
    /\ initialised /\ ops[s] = ZeroOp

\* C17: a call of compute_mac or verify_mac, whether it returns Ok or an
\* error, leaves every session object and its provider context as they were,
\* so every later call on a session returns what it would have returned
\* without the one-shot call.
C17_OneShotStateless ==
  [][(last'.op \in {"compute", "verify"})
       => /\ ops' = ops
          /\ live' = live
          /\ initialised' = initialised]_vars

\* A compute_mac that succeeds while a session is Active and has been fed data.
C17_Witness ==
  \E s \in Sessions :
    /\ last.op = "compute" /\ last.res.ok
    /\ live[s] = "live" /\ Counted(s) /\ hist[s].nfin = 0 /\ hist[s].fed # <<>>
    /\ ops[s].id = 1

\* mac_update called once per chunk, in order, as the wrapper computes it.
RECURSIVE FeedAll(_, _)
FeedAll(operation, chunks) ==
  IF chunks = <<>> THEN operation
  ELSE FeedAll(mac_update(TRUE, operation, Head(chunks), FALSE).operation, Tail(chunks))

\* setup; update(c1); ...; update(cn); finish on a session object of its own
\* that was never used before.
RunAlone(key_id, mac_alg, chunks, len) ==
  mac_sign_finish(TRUE,
                  FeedAll(mac_sign_setup(TRUE, MacOperationDefault, key_id, mac_alg).operation,
                          chunks),
                  FreshMem, len)

\* C16: on a session that was finished since its previous successful setup, a
\* mac_sign_setup with a usable key and algorithm succeeds and makes the
\* session Active with that key and algorithm; the first finish after it
\* returns, and writes, what the same setup, updates and finish return on a
\* session object never used before.
C16_ReuseAfterFinish ==
  \A s \in Sessions :
    /\ (LastOn(s, {"setup"}) /\ hist[s].setupOk /\ hist[s].nfin >= 1
          /\ Usable(last.key, last.alg))
         => last.res.ok
    /\ (LastOn(s, {"setup"}) /\ last.res.ok)
         => /\ ops[s].id = 1
            /\ ops[s].key = last.key /\ ops[s].alg = AlgInto(last.alg)
    /\ (FirstFinish(s) /\ prior[s].key # 0)
         => LET alone == RunAlone(hist[s].key, hist[s].alg, hist[s].fed, last.len)
            IN last.res = alone.res /\ out = alone.mem /\ ops[s] = alone.operation

\* The first finish of a second use with another key than the first use, data
\* fed, returning the MAC.
C16_Witness ==
  \E s \in Sessions :
    /\ FirstFinish(s) /\ prior[s].key \notin {0, hist[s].key}
    /\ hist[s].fed # <<>> /\ last.res = Ok(MacLength(AlgInto(hist[s].alg)))

\* C13: with two threads, each on its own session object and its own key
\* handle, under every interleaving of their calls the first finish of a
\* thread after its setup and updates returns, and writes, what the same
\* setup, updates and finish return when no other thread runs.
C13_ThreadsDoNotInterfere ==
  \A s \in TwoSessions :
    FirstFinish(s)
      => LET alone == RunAlone(ThreadKey(s), hist[s].alg, hist[s].fed, last.len)
         IN /\ hist[s].key = ThreadKey(s)
            /\ last.res = alone.res
            /\ out = alone.mem

\* Thread 1 gets its MAC while thread 2 is between its updates and its finish.
C13_Witness ==
  /\ FirstFinish(1) /\ hist[1].fed # <<>>
  /\ last.res = Ok(MacLength(AlgInto(hist[1].alg)))
  /\ live[2] = "live" /\ Counted(2) /\ hist[2].nfin = 0 /\ hist[2].fed # <<>>
  /\ ops[2].id = 1 /\ ops[2].key = ThreadKey(2)

====
